---- MODULE Spec2Model ----
(***************************************************************************)
(* A model of the multi-agent financial analysis system:                   *)
(*   - the plan executor and the execution planner of                       *)
(*     agents/orchestrator.py, with the handlers they dispatch to;          *)
(*   - the retrieval pipeline of core/rag_pipeline.py, and its fusion,      *)
(*     re-ranking, deduplication and lazy model load on their own;          *)
(*   - the citation tracker of core/citations.py;                           *)
(*   - the verification of agents/auditor.py;                               *)
(*   - the conversation history of core/memory.py.                          *)
(* Each component has its own specification (SpecExec, SpecPlan, ...);     *)
(* the variables of the components a specification does not use stay at    *)
(* their idle values.                                                      *)
(***************************************************************************)
EXTENDS Integers, Sequences, FiniteSets, TLC

VARIABLES
    \* ---- OrchestratorAgent.execute_plan ----
    plan,        \* the plan argument: a sequence of steps
    idx,         \* position of the for loop in plan['steps'] (1-based)
    results,     \* the results dict: role-id -> output
    writes,      \* history: number of assignments results[r] = ... per role-id
    calls,       \* history: the handler invocations, in order, with their inputs
    clock,       \* datetime.now() as seen by the market-data agent
    cited,       \* the analyst's citation tracker (timestamps of cited snapshots)
    pc,          \* control position of the operation under way
    \* ---- OrchestratorAgent.create_plan ----
    user_query,  \* the user_query argument
    response,    \* response.content of the planner, as a sequence of tokens
    created,     \* the value create_plan returns
    \* ---- AdvancedRAGPipeline ----
    vector_store,    \* self.vector_store: None, or what the store holds
    documents,       \* self.documents (self.bm25 exists when it is not empty)
    reranker,        \* self._reranker: "None" or "loaded"
    query,           \* the query argument
    k_arg,           \* the k argument of hybrid_search
    years,           \* the years argument of compare_across_years
    llm,             \* what the chat completion call did
    sub_queries,     \* what decompose_query returned
    pos,             \* position of the loop over sub_queries or years (1-based)
    all_results,     \* all_results of retrieve
    results_by_year, \* results_by_year of compare_across_years
    output,          \* the value the operation returned
    contrib,         \* history: how many results each sub-query contributed
    searches,        \* history: the hybrid_search calls, with what they returned
    \* ---- _merge_results, _deduplicate and rerank called on their own ----
    dense_results,   \* the dense_results argument of _merge_results
    sparse_results,  \* the sparse_results argument of _merge_results
    in_results,      \* the results argument of rerank or of _deduplicate
    scorer,          \* which scores the cross-encoder gives for the query
    \* ---- the reranker property under concurrent callers ----
    callers,         \* per caller: position in the property, instance got
    constructed,     \* history: number of CrossEncoder(...) constructions
    \* ---- core/citations.py: CitationTracker ----
    citations,          \* self.citations
    claim_to_citation,  \* self.claim_to_citation
    rendered,           \* the text format_for_report returned, line by line
    validation,         \* the value validate_citations returned
    \* ---- AuditorAgent.verify ----
    analyst_report,       \* the analyst_report argument
    audit_market_data,    \* the market_data argument
    verification_results, \* the value verify returned
    \* ---- core/memory.py: SessionMemory ----
    conversation_history, \* self.conversation_history
    n_turns,              \* the n_turns argument of get_context_window
    context_window        \* the value get_context_window returned

execVars == <<plan, idx, results, writes, calls, clock, cited>>

planVars == <<user_query, response, created>>

ragConfig == <<vector_store, documents>>

ragVars ==
    <<vector_store, documents, reranker, query, k_arg, years, llm, sub_queries, pos,
      all_results, results_by_year, output, contrib, searches>>

fusionVars == <<dense_results, sparse_results, in_results, scorer>>

lazyVars == <<callers, constructed>>

citeVars == <<citations, claim_to_citation, rendered, validation>>

auditVars == <<analyst_report, audit_market_data, verification_results>>

memVars == <<conversation_history, n_turns, context_window>>

laterVars == <<fusionVars, lazyVars, citeVars, auditVars, memVars>>

vars == <<execVars, planVars, ragVars, laterVars, pc>>

\* what a specification leaves alone
nonExecVars == <<planVars, ragVars, laterVars>>

nonPlanVars == <<execVars, ragVars, laterVars>>

nonRagVars == <<execVars, planVars, laterVars>>

IdleExec ==
    /\ plan = << >>
    /\ idx = 0
    /\ results = << >>
    /\ writes = << >>
    /\ calls = << >>
    /\ clock = 0
    /\ cited = {}

IdlePlan ==
    /\ user_query = "idle"
    /\ response = << >>
    /\ created = [type |-> "none"]

IdleRag ==
    /\ vector_store = [present |-> FALSE, items |-> << >>]
    /\ documents = << >>
    /\ reranker = "None"
    /\ query = [type |-> "str", text |-> <<"idle">>]
    /\ k_arg = 0
    /\ years = << >>
    /\ llm = [kind |-> "idle"]
    /\ sub_queries = << >>
    /\ pos = 0
    /\ all_results = << >>
    /\ results_by_year = << >>
    /\ output = << >>
    /\ contrib = << >>
    /\ searches = << >>

IdleFusion ==
    /\ dense_results = << >>
    /\ sparse_results = << >>
    /\ in_results = << >>
    /\ scorer = 0

IdleLazy ==
    /\ callers = << >>
    /\ constructed = 0

IdleCite ==
    /\ citations = << >>
    /\ claim_to_citation = << >>
    /\ rendered = << >>
    /\ validation = << >>

IdleAudit ==
    /\ analyst_report = << >>
    /\ audit_market_data = << >>
    /\ verification_results = << >>

IdleMem ==
    /\ conversation_history = << >>
    /\ n_turns = 0
    /\ context_window = << >>

IdleLater ==
    /\ IdleFusion
    /\ IdleLazy
    /\ IdleCite
    /\ IdleAudit
    /\ IdleMem

-----------------------------------------------------------------------------
(* Bounds of the model *)

\* longest plan drawn for the executor (the fallback plan is drawn besides)
MaxSteps == 3

-----------------------------------------------------------------------------
(* Generic helpers *)

Range(s) == {s[i] : i \in 1..Len(s)}

SeqsUpTo(S, n) == UNION {[1..m -> S] : m \in 0..n}

\* Python's None
NoneVal == [kind |-> "None"]

-----------------------------------------------------------------------------
(* agents/orchestrator.py: execute_plan and the handlers it calls *)

\* the four role-ids execute_plan dispatches on (lines 112, 114, 116, 122)
KnownRoles == {"sec_researcher", "market_data", "analyst", "auditor"}

\* a role-id none of the four branches matches
UnknownRole == "researcher_v2"

AgentIds == KnownRoles \cup {UnknownRole}

\* dependency lists a step may carry
DepSets ==
    { {}, {"sec_researcher"}, {"sec_researcher", "market_data"},
      {"analyst"}, {"auditor"} }

Steps == [agent : AgentIds, task : {"task"}, dependencies : DepSets]

\* the plan create_plan falls back to (orchestrator.py lines 85-92), as the
\* executor sees it
FallbackSteps ==
    << [agent |-> "sec_researcher", task |-> "task", dependencies |-> {}],
       [agent |-> "market_data", task |-> "task", dependencies |-> {}],
       [agent |-> "analyst", task |-> "task",
        dependencies |-> {"sec_researcher", "market_data"}],
       [agent |-> "auditor", task |-> "task", dependencies |-> {"analyst"}] >>

Plans == SeqsUpTo(Steps, MaxSteps) \cup {FallbackSteps}

\* results.get(key): the entry, or None
Get(res, key) == IF key \in DOMAIN res THEN res[key] ELSE NoneVal

\* results.get(key, {}): the entry, or an empty dict
GetOrEmpty(res, key) == IF key \in DOMAIN res THEN res[key] ELSE [kind |-> "empty"]

\* results = {key: value}: the other entries are lost
PutAlone(res, key, value) == [k \in {key} |-> value]

\* results[key] = value
Put(res, key, value) ==
    [k \in DOMAIN res \cup {key} |-> IF k = key THEN value ELSE res[k]]

\* any() in place of all()
DepsReadyAny(step, res) ==
    step.dependencies = {} \/ \E dep \in step.dependencies : dep \in DOMAIN res

\* line 106: all(dep in results for dep in step['dependencies'])
DepsReady(step, res) == \A dep \in step.dependencies : dep \in DOMAIN res

\* SECResearcherAgent.run: a fixed placeholder, whatever the task
SecRun(task, ticker) ==
    [kind |-> "findings", risks |-> "none", strategy |-> "See 10-K filings for details"]

\* what yfinance's info may hold: every numeric field, or none of them
FeedKinds == {"full", "sparse"}

\* MarketDataAgent.get_comprehensive_data: the snapshot built from the feed
MarketSnapshot(feed, now) == [kind |-> "snapshot", fields |-> feed, timestamp |-> now]

\* FinancialAnalystAgent.synthesize raises: market_data['timestamp'] on None
\* (line 82), the :.2f formats on a None price (lines 33, 137), sec_data.get
\* on None (line 159)
SynthesizeRaises(sec_data, market_data) ==
    \/ market_data = NoneVal
    \/ market_data.kind = "snapshot" /\ market_data.fields = "sparse"
    \/ sec_data = NoneVal

\* the report synthesize returns: its timestamp line and its Sources section
Synthesize(sec_data, market_data, tracked) ==
    [kind |-> "report", generated |-> market_data.timestamp, sources |-> tracked]

\* AuditorAgent._verify_numbers: valid only when price, shares and cap are there
NumericValid(market_data) ==
    market_data.kind = "snapshot" /\ market_data.fields = "full"

\* AuditorAgent.verify: the report's template sentences carry figures and no
\* citation link, so the citation check fails; the claim check always passes
Verify(report, market_data) ==
    [kind |-> "verification",
     citation_ok |-> FALSE,
     numeric_ok |-> NumericValid(market_data),
     checks_passed |-> (IF NumericValid(market_data) THEN 1 ELSE 0) + 1]

ExecInit ==
    /\ plan \in Plans
    /\ idx = 1
    /\ results = << >>
    /\ writes = [r \in KnownRoles |-> 0]
    /\ calls = << >>
    /\ clock = 1
    /\ cited = {}
    /\ pc = "run"
    /\ IdlePlan
    /\ IdleRag
    /\ IdleLater

\* one iteration of the for loop whose step is not runnable, or whose agent
\* no branch matches (lines 101-109, and falling through 112-128)
ExecSkip ==
    /\ pc = "run"
    /\ idx <= Len(plan)
    /\ \/ ~DepsReady(plan[idx], results)
       \/ plan[idx].agent \notin KnownRoles
    /\ idx' = idx + 1
    /\ UNCHANGED <<plan, results, writes, calls, clock, cited, pc>>
    /\ UNCHANGED nonExecVars

\* lines 112-113
ExecSec ==
    /\ pc = "run"
    /\ idx <= Len(plan)
    /\ DepsReady(plan[idx], results)
    /\ plan[idx].agent = "sec_researcher"
    /\ results' = Put(results, "sec_researcher", SecRun(plan[idx].task, "TICK"))
    /\ writes' = [writes EXCEPT !["sec_researcher"] = @ + 1]
    /\ calls' = Append(calls, [agent |-> "sec_researcher", step |-> idx,
                               args |-> << >>])
    /\ idx' = idx + 1
    /\ UNCHANGED <<plan, clock, cited, pc>>
    /\ UNCHANGED nonExecVars

\* lines 114-115: the fetch returns a snapshot
ExecMarket ==
    /\ pc = "run"
    /\ idx <= Len(plan)
    /\ DepsReady(plan[idx], results)
    /\ plan[idx].agent = "market_data"
    /\ \E feed \in FeedKinds :
          /\ results' = Put(results, "market_data", MarketSnapshot(feed, clock))
          /\ calls' = Append(calls, [agent |-> "market_data", step |-> idx,
                                     args |-> <<[kind |-> "feed", fields |-> feed]>>])
    /\ writes' = [writes EXCEPT !["market_data"] = @ + 1]
    /\ clock' = clock + 1
    /\ idx' = idx + 1
    /\ UNCHANGED <<plan, cited, pc>>
    /\ UNCHANGED nonExecVars

\* lines 114-115: the fetch fails (no network, unknown ticker)
ExecMarketRaises ==
    /\ pc = "run"
    /\ idx <= Len(plan)
    /\ DepsReady(plan[idx], results)
    /\ plan[idx].agent = "market_data"
    /\ calls' = Append(calls, [agent |-> "market_data", step |-> idx,
                               args |-> << >>])
    /\ pc' = "raised"
    /\ UNCHANGED <<plan, idx, results, writes, clock, cited>>
    /\ UNCHANGED nonExecVars

\* lines 116-121
ExecAnalyst ==
    /\ pc = "run"
    /\ idx <= Len(plan)
    /\ DepsReady(plan[idx], results)
    /\ plan[idx].agent = "analyst"
    /\ LET sec_data == Get(results, "sec_researcher")
           market_data == Get(results, "market_data")
       IN /\ calls' = Append(calls, [agent |-> "analyst", step |-> idx,
                                     args |-> <<sec_data, market_data>>])
          /\ IF SynthesizeRaises(sec_data, market_data)
             THEN /\ pc' = "raised"
                  /\ UNCHANGED <<idx, results, writes, cited>>
             ELSE /\ cited' = cited \cup {market_data.timestamp}
                  /\ results' = Put(results, "analyst",
                                    Synthesize(sec_data, market_data, cited'))
                  /\ writes' = [writes EXCEPT !["analyst"] = @ + 1]
                  /\ idx' = idx + 1
                  /\ pc' = pc
    /\ UNCHANGED <<plan, clock>>
    /\ UNCHANGED nonExecVars

\* lines 122-128: results['analyst'] raises KeyError when the key is absent
ExecAuditor ==
    /\ pc = "run"
    /\ idx <= Len(plan)
    /\ DepsReady(plan[idx], results)
    /\ plan[idx].agent = "auditor"
    /\ LET market_data == GetOrEmpty(results, "market_data")
       IN /\ calls' = Append(calls, [agent |-> "auditor", step |-> idx,
                                     args |-> <<Get(results, "analyst"), market_data>>])
          /\ IF "analyst" \notin DOMAIN results
             THEN /\ pc' = "raised"
                  /\ UNCHANGED <<idx, results, writes>>
             ELSE /\ results' = Put(results, "auditor",
                                    Verify(results["analyst"], market_data))
                  /\ writes' = [writes EXCEPT !["auditor"] = @ + 1]
                  /\ idx' = idx + 1
                  /\ pc' = pc
    /\ UNCHANGED <<plan, clock, cited>>
    /\ UNCHANGED nonExecVars

\* line 130
ExecReturn ==
    /\ pc = "run"
    /\ idx > Len(plan)
    /\ pc' = "returned"
    /\ UNCHANGED <<plan, idx, results, writes, calls, clock, cited>>
    /\ UNCHANGED nonExecVars

ExecNext ==
    \/ ExecSkip
    \/ ExecSec
    \/ ExecMarket
    \/ ExecMarketRaises
    \/ ExecAnalyst
    \/ ExecAuditor
    \/ ExecReturn

SpecExec == ExecInit /\ [][ExecNext]_vars

-----------------------------------------------------------------------------
(* Claims about execute_plan *)

\* the role-ids a single forward pass over the first n steps leaves in the
\* result: a step adds its role when the role is one of the four known ones and
\* all its dependencies were added by earlier steps
RECURSIVE GatedKeys(_, _)
GatedKeys(steps, n) ==
    IF n = 0 THEN {}
    ELSE LET before == GatedKeys(steps, n - 1)
         IN IF steps[n].agent \in KnownRoles /\ steps[n].dependencies \subseteq before
            THEN before \cup {steps[n].agent}
            ELSE before

StepOf(agent, deps) == [agent |-> agent, task |-> "task", dependencies |-> deps]

\* C1: when execute_plan returns (no handler raised), the ResultMap holds role R
\* exactly when some step with known agent R had all its dependencies present
\* as keys when it was reached, in one pass in listed order: the handlers run
\* in strictly increasing step order; the plan [B deps=[A], A] yields only A
\* and [A, B deps=[A]] yields both.
C1_SinglePassGating ==
    /\ \A i, j \in 1..Len(calls) : i < j => calls[i].step < calls[j].step
    /\ pc = "returned" =>
          /\ DOMAIN results = GatedKeys(plan, Len(plan))
          /\ plan = <<StepOf("market_data", {"sec_researcher"}), StepOf("sec_researcher", {})>>
                => DOMAIN results = {"sec_researcher"}
          /\ plan = <<StepOf("sec_researcher", {}), StepOf("market_data", {"sec_researcher"})>>
                => DOMAIN results = {"sec_researcher", "market_data"}

\* C1 witness: a returned run in which one step ran, a step listed before its
\* dependency is absent, and a runnable step with an unknown role wrote nothing
C1_Witness ==
    /\ pc = "returned"
    /\ \E i, j, u \in 1..Len(plan) :
          /\ i < j
          /\ plan[j].agent \in plan[i].dependencies
          /\ plan[j].agent \in DOMAIN results
          /\ plan[i].agent \in KnownRoles \ DOMAIN results
          /\ plan[u].agent = UnknownRole
          /\ plan[u].dependencies = {}

\* an input of a consumer call that stands for an absent upstream entry
MissingUpstream(call) ==
    \E k \in 1..Len(call.args) : call.args[k].kind \in {"None", "empty"}

\* C2: execute_plan never fails in an analyst or auditor step that was executed
\* while an upstream output it consumes was absent from the ResultMap.
C2_MissingUpstreamTolerated ==
    pc = "raised" =>
        LET last == calls[Len(calls)]
        IN ~(last.agent \in {"analyst", "auditor"} /\ MissingUpstream(last))

\* the number of steps before position i that name role r
StepsNaming(r, i) == Cardinality({k \in 1..(i - 1) : k <= Len(plan) /\ plan[k].agent = r})

\* C3 as stated: once an entry is written it is never removed and never
\* written again before execute_plan returns.
C3_WriteOnce ==
    [][\A r \in DOMAIN results : r \in DOMAIN results' /\ writes'[r] = writes[r]]_vars

\* C3 as amended: no entry is ever removed; a role's entry exists exactly when
\* it was written; it is written at most once per step naming the role, so
\* once for plans naming each role in at most one step; an existing entry is
\* rewritten only by a later step naming the same role again.
C3_GrowsRewrittenOnlyOnRepeat ==
    /\ [](\A r \in KnownRoles :
            /\ (r \in DOMAIN results) = (writes[r] >= 1)
            /\ writes[r] <= StepsNaming(r, idx))
    /\ [][/\ \A r \in DOMAIN results : r \in DOMAIN results'
          /\ \A r \in DOMAIN results :
                writes'[r] # writes[r] =>
                    /\ plan[idx].agent = r
                    /\ StepsNaming(r, idx) >= 1
                    /\ writes'[r] = writes[r] + 1]_vars

\* C3 witness: an entry that has been overwritten with a different output
C3_Witness ==
    /\ writes["market_data"] = 2
    /\ results["market_data"].timestamp = 2

\* execute_plan over the first n steps as one computation, the k-th fetch of
\* market data finding feeds[k]: the result map, the handler calls and whether
\* a handler raised (lines 99-130)
RECURSIVE RunSteps(_, _, _)
RunSteps(steps, n, feeds) ==
    IF n = 0
    THEN [results |-> << >>, calls |-> << >>, clock |-> 1, cited |-> {},
          raised |-> FALSE]
    ELSE LET before == RunSteps(steps, n - 1, feeds)
             step == steps[n]
             res == before.results
             call(args) == Append(before.calls,
                                  [agent |-> step.agent, step |-> n, args |-> args])
         IN IF before.raised \/ ~DepsReady(step, res) \/ step.agent \notin KnownRoles
            THEN before
            ELSE IF step.agent = "sec_researcher"
            THEN [before EXCEPT !.results = Put(res, "sec_researcher",
                                                SecRun(step.task, "TICK")),
                                !.calls = call(<< >>)]
            ELSE IF step.agent = "market_data"
            THEN IF before.clock > Len(feeds)
                 THEN [before EXCEPT !.raised = TRUE]
                 ELSE [before EXCEPT
                          !.results = Put(res, "market_data",
                                          MarketSnapshot(feeds[before.clock],
                                                         before.clock)),
                          !.calls = call(<<[kind |-> "feed",
                                            fields |-> feeds[before.clock]]>>),
                          !.clock = before.clock + 1]
            ELSE IF step.agent = "analyst"
            THEN LET sec_data == Get(res, "sec_researcher")
                     market_data == Get(res, "market_data")
                 IN IF SynthesizeRaises(sec_data, market_data)
                    THEN [before EXCEPT !.raised = TRUE,
                                        !.calls = call(<<sec_data, market_data>>)]
                    ELSE LET tracked == before.cited \cup {market_data.timestamp}
                         IN [before EXCEPT
                                !.results = Put(res, "analyst",
                                                Synthesize(sec_data, market_data,
                                                           tracked)),
                                !.calls = call(<<sec_data, market_data>>),
                                !.cited = tracked]
            ELSE LET market_data == GetOrEmpty(res, "market_data")
                 IN IF "analyst" \notin DOMAIN res
                    THEN [before EXCEPT !.raised = TRUE,
                                        !.calls = call(<<NoneVal, market_data>>)]
                    ELSE [before EXCEPT
                             !.results = Put(res, "auditor",
                                             Verify(res["analyst"], market_data)),
                             !.calls = call(<<res["analyst"], market_data>>)]

\* the plan's steps with the first two exchanged
SwapFirstTwo(steps) ==
    [i \in 1..Len(steps) |-> IF i = 1 THEN steps[2] ELSE IF i = 2 THEN steps[1]
                             ELSE steps[i]]

\* what the fetches of a run found, in order
FeedsOf(log) ==
    LET fetches == SelectSeq(log, LAMBDA c : c.agent = "market_data")
    IN [k \in 1..Len(fetches) |-> fetches[k].args[1].fields]

\* the calls of the analyst and auditor handlers, with their inputs
ConsumerCalls(log) == SelectSeq(log, LAMBDA c : c.agent \in {"analyst", "auditor"})

\* the plan starts with the two independent steps, in either order
IndependentPairFirst(steps) ==
    /\ Len(steps) >= 2
    /\ {steps[1].agent, steps[2].agent} = {"sec_researcher", "market_data"}
    /\ steps[1].dependencies = {}
    /\ steps[2].dependencies = {}

\* C22: the executor tolerates either order of the two independent steps: for
\* a plan whose sec_researcher and market_data steps both have no
\* dependencies, swapping the positions of those two steps (all other steps
\* unchanged and listed after them) yields a ResultMap with the same set of
\* populated role-ids and the same inputs passed to the analyst and auditor
\* handlers.
C22_EitherOrderOfIndependentSteps ==
    (pc = "returned" /\ IndependentPairFirst(plan)) =>
        LET swapped == RunSteps(SwapFirstTwo(plan), Len(plan), FeedsOf(calls))
        IN /\ ~swapped.raised
           /\ DOMAIN swapped.results = DOMAIN results
           /\ ConsumerCalls(swapped.calls) = ConsumerCalls(calls)

\* C22 witness: the fallback plan ran to its end, the analyst and the auditor
\* having been called with the outputs of the two independent steps
C22_Witness ==
    /\ pc = "returned"
    /\ plan = FallbackSteps
    /\ IndependentPairFirst(plan)
    /\ DOMAIN results = KnownRoles
    /\ Len(ConsumerCalls(calls)) = 2
    /\ ConsumerCalls(calls)[1].args = <<results["sec_researcher"], results["market_data"]>>

\* execute_plan under a scheduler that lets the loop take its next step
SpecExecLive == ExecInit /\ [][ExecNext]_vars /\ WF_vars(ExecNext)

\* the role-ids that the role-ids of S wait for, directly or through other
\* steps, following dependency lists for n more rounds
RECURSIVE WaitedFor(_, _, _)
WaitedFor(steps, S, n) ==
    IF n = 0 THEN S
    ELSE WaitedFor(steps,
                   S \cup UNION {steps[k].dependencies :
                                    k \in {j \in 1..Len(steps) : steps[j].agent \in S}},
                   n - 1)

\* step i lies on a dependency cycle: its role-id is among those its own
\* dependencies wait for (a self-dependency is the cycle of length one)
OnCycle(steps, i) ==
    steps[i].agent \in WaitedFor(steps, steps[i].dependencies, Len(steps))

\* no role-id is named by two steps
DistinctRoles(steps) ==
    \A i, j \in 1..Len(steps) : steps[i].agent = steps[j].agent => i = j

\* step i ran a handler
Ran(i) == \E c \in 1..Len(calls) : calls[c].step = i

Terminated == pc \in {"returned", "raised"}

\* C26 as stated: execute_plan terminates for every finite plan, including
\* plans whose dependencies form a cycle or a self-dependency: it reaches each
\* step exactly once, invokes at most one handler per step (never more handler
\* invocations than steps), and a step that lies on a dependency cycle never
\* runs and is absent from the returned ResultMap.
C26_CycleStepsNeverRun ==
    /\ <>Terminated
    /\ [](Terminated => idx = Len(plan) + 1)
    /\ [][idx' = idx + 1 \/ (idx' = idx /\ Terminated')]_vars
    /\ [](/\ Len(calls) <= Len(plan)
          /\ \A c, d \in 1..Len(calls) : c < d => calls[c].step < calls[d].step)
    /\ [](\A i \in 1..Len(plan) :
             OnCycle(plan, i) =>
                 /\ ~Ran(i)
                 /\ pc = "returned" => plan[i].agent \notin DOMAIN results)

\* C26 as amended: execute_plan terminates for every finite plan, by returning
\* or by a handler's exception: it reaches the steps in listed order, each at
\* most once and each exactly once when it returns, invokes at most one
\* handler per step, and, in a plan that names no role-id in two steps, a step
\* that lies on a dependency cycle never runs and is absent from the returned
\* ResultMap.
C26_TerminatesCyclesOfDistinctRolesIdle ==
    /\ <>Terminated
    /\ [](pc = "returned" => idx = Len(plan) + 1)
    /\ [](idx \in 1..(Len(plan) + 1))
    /\ [][idx' = idx + 1 \/ (idx' = idx /\ Terminated')]_vars
    /\ [](/\ Len(calls) <= Len(plan)
          /\ \A c, d \in 1..Len(calls) : c < d => calls[c].step < calls[d].step)
    /\ [](DistinctRoles(plan) =>
             \A i \in 1..Len(plan) :
                 OnCycle(plan, i) =>
                     /\ ~Ran(i)
                     /\ pc = "returned" => plan[i].agent \notin DOMAIN results)

\* C26 witness: the analyst and the auditor waiting for each other never ran,
\* the step after them did, and the run returned with that step's entry alone
C26_Witness ==
    /\ pc = "returned"
    /\ plan = <<StepOf("analyst", {"auditor"}), StepOf("auditor", {"analyst"}),
                StepOf("sec_researcher", {})>>
    /\ OnCycle(plan, 1)
    /\ OnCycle(plan, 2)
    /\ ~OnCycle(plan, 3)
    /\ idx = 4
    /\ Len(calls) = 1
    /\ DOMAIN results = {"sec_researcher"}

-----------------------------------------------------------------------------
(* Text returned by a language model, as a sequence of tokens: a code-fence  *)
(* marker, a language tag, a blank, a line break, prose, or the complete      *)
(* text of one JSON value.                                                   *)

\* the JSON values a response may carry
JsonTokens ==
    { "J_PLAN", "J_NOSTEPS", "J_NOAGENT", "J_DANGLING", "J_CYCLE", "J_NUMBER",
      "J_ARR0", "J_ARR2", "J_ARR4", "J_ARRNUM" }

Whitespace == {"SP", "NL"}

\* the lines a response is made of, around the JSON value j
LineMenu(j) ==
    { <<"FENCE">>, <<"FENCE", "TAG">>, <<j>>, <<"FENCE", "TAG", "SP", j>>,
      <<j, "FENCE">>, <<"FENCE", j, "FENCE">>, << >>, <<"SP", "FENCE", "SP">>,
      <<"TXT">>, <<"SP", j, "SP">> }

RECURSIVE LStrip(_)
LStrip(s) == IF s # << >> /\ Head(s) \in Whitespace THEN LStrip(Tail(s)) ELSE s

RECURSIVE RStrip(_)
RStrip(s) ==
    IF s # << >> /\ s[Len(s)] \in Whitespace THEN RStrip(SubSeq(s, 1, Len(s) - 1)) ELSE s

\* str.strip()
Strip(s) == RStrip(LStrip(s))

\* str.split('\n')
RECURSIVE SplitLines(_)
SplitLines(s) ==
    IF \A i \in 1..Len(s) : s[i] # "NL"
    THEN <<s>>
    ELSE LET i == CHOOSE k \in 1..Len(s) :
                      s[k] = "NL" /\ \A m \in 1..(k - 1) : s[m] # "NL"
         IN <<SubSeq(s, 1, i - 1)>> \o SplitLines(SubSeq(s, i + 1, Len(s)))

\* '\n'.join(lines)
RECURSIVE JoinLines(_)
JoinLines(lines) ==
    IF lines = << >> THEN << >>
    ELSE IF Len(lines) = 1 THEN lines[1]
    ELSE lines[1] \o <<"NL">> \o JoinLines(Tail(lines))

\* json.loads accepts the text: one JSON value, blanks and line breaks around it
JsonParses(text) == Len(Strip(text)) = 1 /\ Strip(text)[1] \in JsonTokens

\* a Python str (its text in pieces) and a Python number, as list items and as
\* queries
Str(text) == [type |-> "str", text |-> text]

Num(text) == [type |-> "num", text |-> text]

JStep(agent, task, deps) ==
    [keys |-> {"agent", "task", "dependencies"}, agent |-> agent, task |-> task,
     dependencies |-> deps]

JPlan(steps) == [type |-> "object", keys |-> {"steps"}, steps |-> steps]

\* the value each JSON text stands for
JsonValue(tok) ==
    CASE tok = "J_PLAN" ->
            JPlan(<< JStep("sec_researcher", <<"...">>, << >>),
                     JStep("market_data", <<"...">>, << >>),
                     JStep("analyst", <<"...">>, <<"sec_researcher", "market_data">>),
                     JStep("auditor", <<"...">>, <<"analyst">>) >>)
      [] tok = "J_NOSTEPS" -> [type |-> "object", keys |-> {}]
      [] tok = "J_NOAGENT" ->
            JPlan(<< [keys |-> {"task", "dependencies"}, task |-> <<"...">>,
                      dependencies |-> << >>] >>)
      [] tok = "J_DANGLING" ->
            JPlan(<< JStep("analyst", <<"...">>, <<"sec_researcher">>) >>)
      [] tok = "J_CYCLE" ->
            JPlan(<< JStep("analyst", <<"...">>, <<"auditor">>),
                     JStep("auditor", <<"...">>, <<"analyst">>) >>)
      [] tok = "J_NUMBER" -> [type |-> "number", value |-> 42]
      [] tok = "J_ARR0" -> [type |-> "array", items |-> << >>]
      [] tok = "J_ARR2" -> [type |-> "array", items |-> <<Str(<<"sub1">>), Str(<<"sub2">>)>>]
      [] tok = "J_ARR4" ->
            [type |-> "array",
             items |-> <<Str(<<"sub1">>), Str(<<"sub2">>), Str(<<"sub3">>), Str(<<"sub4">>)>>]
      [] tok = "J_ARRNUM" -> [type |-> "array", items |-> <<Num(<<"1">>), Num(<<"2">>)>>]

\* json.loads(text), for a text it accepts
JsonLoads(text) == JsonValue(Strip(text)[1])

-----------------------------------------------------------------------------
(* agents/orchestrator.py: create_plan *)

\* longest planner response, in lines
MaxLines == 3

Queries == {"Analyze AAPL", "Analyze NVDA"}

Responses(j) == {JoinLines(ls) : ls \in SeqsUpTo(LineMenu(j), MaxLines)}

\* lines 68-76: the first line goes when the content starts with a marker, and
\* the last line goes when it is a closing marker
StripFence(content) ==
    IF content # << >> /\ content[1] = "FENCE"
    THEN LET lines == Tail(SplitLines(content))
             kept == IF lines # << >> /\ Strip(lines[Len(lines)]) = <<"FENCE">>
                     THEN SubSeq(lines, 1, Len(lines) - 1)
                     ELSE lines
         IN JoinLines(kept)
    ELSE content

\* lines 65-76
PlanContent(resp) == StripFence(Strip(resp))

\* the fallback with the analyst waiting for the filings alone
FallbackPlanNoMarketDep(q) ==
    JPlan(<< JStep("sec_researcher", <<"Analyze 10-K filings for ", q>>, << >>),
             JStep("market_data", <<"Fetch current market data">>, << >>),
             JStep("analyst", <<"Synthesize analysis">>, <<"sec_researcher">>),
             JStep("auditor", <<"Verify analysis">>, <<"analyst">>) >>)

\* lines 85-92
FallbackPlan(q) ==
    JPlan(<< JStep("sec_researcher", <<"Analyze 10-K filings for ", q>>, << >>),
             JStep("market_data", <<"Fetch current market data">>, << >>),
             JStep("analyst", <<"Synthesize analysis">>,
                   <<"sec_researcher", "market_data">>),
             JStep("auditor", <<"Verify analysis">>, <<"analyst">>) >>)

PlanInit ==
    /\ user_query \in Queries
    /\ response = << >>
    /\ created = [type |-> "none"]
    /\ pc = "call_planner"
    /\ IdleExec
    /\ IdleRag
    /\ IdleLater

\* line 62: the planner answers
PlannerRun ==
    /\ pc = "call_planner"
    /\ \E j \in JsonTokens : \E r \in Responses(j) : response' = r
    /\ pc' = "parse"
    /\ UNCHANGED <<user_query, created>>
    /\ UNCHANGED nonPlanVars

\* line 62: the planner call fails; nothing in create_plan catches it
PlannerRaises ==
    /\ pc = "call_planner"
    /\ pc' = "raised"
    /\ UNCHANGED <<user_query, response, created>>
    /\ UNCHANGED nonPlanVars

\* lines 65-80 and 94: the content parses, and the parsed value is returned
PlanParsed ==
    /\ pc = "parse"
    /\ JsonParses(PlanContent(response))
    /\ created' = JsonLoads(PlanContent(response))
    /\ pc' = "returned"
    /\ UNCHANGED <<user_query, response>>
    /\ UNCHANGED nonPlanVars

\* lines 65-94: JSONDecodeError, and the fallback plan is returned
PlanFallback ==
    /\ pc = "parse"
    /\ ~JsonParses(PlanContent(response))
    /\ created' = FallbackPlan(user_query)
    /\ pc' = "returned"
    /\ UNCHANGED <<user_query, response>>
    /\ UNCHANGED nonPlanVars

PlanNext ==
    \/ PlannerRun
    \/ PlannerRaises
    \/ PlanParsed
    \/ PlanFallback

SpecPlan == PlanInit /\ [][PlanNext]_vars

-----------------------------------------------------------------------------
(* Claims about create_plan *)

\* the agents and dependency sets of a plan's steps, in step order
PlanShape(p) ==
    [i \in 1..Len(p.steps) |-> <<p.steps[i].agent, Range(p.steps[i].dependencies)>>]

\* C4: whenever the planner's response, after code-fence stripping, is not
\* parseable JSON, create_plan returns without raising, and what it returns is
\* the four-step plan sec_researcher (no dependencies), market_data (no
\* dependencies), analyst (sec_researcher and market_data), auditor (analyst),
\* the same for every response and every goal text.
C4_FallbackOnUnparseable ==
    [][(pc = "parse" /\ ~JsonParses(PlanContent(response))) =>
          /\ pc' = "returned"
          /\ created'.type = "object"
          /\ created'.keys = {"steps"}
          /\ PlanShape(created') =
                << <<"sec_researcher", {}>>,
                   <<"market_data", {}>>,
                   <<"analyst", {"sec_researcher", "market_data"}>>,
                   <<"auditor", {"analyst"}>> >>]_vars

\* C4 witness: a response that held a valid plan on the line of its opening
\* marker is unparseable once the markers are stripped, and the fallback for the
\* second goal text was returned
C4_Witness ==
    /\ pc = "returned"
    /\ user_query = "Analyze NVDA"
    /\ response = <<"FENCE", "TAG", "SP", "J_PLAN", "NL", "FENCE">>
    /\ ~JsonParses(PlanContent(response))
    /\ created = FallbackPlan("Analyze NVDA")

\* the roles a role waits for, directly or through other steps, in n rounds
RECURSIVE WaitsFor(_, _, _)
WaitsFor(steps, role, n) ==
    IF n = 0 THEN {}
    ELSE LET direct == UNION {Range(steps[i].dependencies) :
                                 i \in {k \in 1..Len(steps) : steps[k].agent = role}}
         IN direct \cup UNION {WaitsFor(steps, d, n - 1) : d \in direct}

\* a Plan of the data model: a steps sequence, every step with agent, task and
\* dependencies, every dependency some step's agent, no dependency cycle
WellFormedPlan(p) ==
    /\ p.type = "object"
    /\ "steps" \in p.keys
    /\ \A i \in 1..Len(p.steps) :
          /\ {"agent", "task", "dependencies"} \subseteq p.steps[i].keys
          /\ Range(p.steps[i].dependencies) \subseteq
                {p.steps[k].agent : k \in 1..Len(p.steps)}
          /\ p.steps[i].agent \notin WaitsFor(p.steps, p.steps[i].agent, Len(p.steps))

\* C5: create_plan returns a well-formed Plan in every case: it never fails, and
\* what it returns has a steps sequence and forms a DAG over role-ids.
C5_AlwaysWellFormedPlan ==
    /\ pc # "raised"
    /\ pc = "returned" => WellFormedPlan(created)

\* the responses that are the JSON value j between code-fence markers: an
\* opening marker with or without a language tag and a closing marker, each on
\* its own line or on the line of the JSON
FencedLayouts(j) ==
    {open \o sep1 \o <<j>> \o sep2 \o <<"FENCE">> :
        open \in {<<"FENCE">>, <<"FENCE", "TAG">>},
        sep1 \in {<<"NL">>, <<"SP">>, << >>},
        sep2 \in {<<"NL">>, << >>}}

\* C23: for every planner response that consists of a valid JSON plan
\* surrounded by code-fence markers (an opening marker with or without a
\* language tag and a closing marker, on their own lines or on the same line
\* as the JSON), create_plan strips the markers before parsing and returns
\* that parsed plan, not the fallback plan.
C23_FencedPlanParsed ==
    [][(pc = "parse" /\ response \in FencedLayouts("J_PLAN")) =>
          /\ pc' = "returned"
          /\ created' = JsonValue("J_PLAN")]_vars

-----------------------------------------------------------------------------
(* core/rag_pipeline.py: decompose_query *)

UserQueries == {Str(<<"risks">>), Str(<<"revenue trend">>)}

\* what the chat completion call does: it raises, it answers without content,
\* or it answers with a text
LlmOutcomes(texts) ==
    {[kind |-> "raise"], [kind |-> "none"]} \cup {[kind |-> "text", text |-> t] : t \in texts}

\* isinstance(sub_queries, list), without the emptiness test
IsList(value) == value.type = "array"

\* line 65: isinstance(sub_queries, list) and sub_queries
IsNonEmptyList(value) == value.type = "array" /\ value.items # << >>

\* lines 50-75: the call raising and the content being None (.strip() on None)
\* end in the outer except; a text json.loads rejects, or whose value is not a
\* non-empty list, ends at line 71
DecomposeQuery(q, outcome) ==
    IF outcome.kind # "text" THEN <<q>>
    ELSE IF ~JsonParses(Strip(outcome.text)) THEN <<q>>
    ELSE IF IsNonEmptyList(JsonLoads(Strip(outcome.text)))
         THEN JsonLoads(Strip(outcome.text)).items
         ELSE <<q>>

DecomposeInit ==
    /\ query \in UserQueries
    /\ llm = [kind |-> "pending"]
    /\ sub_queries = << >>
    /\ pc = "call_llm"
    /\ vector_store = [present |-> FALSE, items |-> << >>]
    /\ documents = << >>
    /\ reranker = "None"
    /\ k_arg = 0
    /\ years = << >>
    /\ pos = 0
    /\ all_results = << >>
    /\ results_by_year = << >>
    /\ output = << >>
    /\ contrib = << >>
    /\ searches = << >>
    /\ IdleExec
    /\ IdlePlan
    /\ IdleLater

\* lines 51-61: the completion call returns a text
LlmAnswers ==
    /\ pc = "call_llm"
    /\ \E j \in JsonTokens : \E t \in Responses(j) : llm' = [kind |-> "text", text |-> t]
    /\ pc' = "parse"
    /\ UNCHANGED <<vector_store, documents, reranker, query, k_arg, years, sub_queries,
                   pos, all_results, results_by_year, output, contrib, searches>>
    /\ UNCHANGED nonRagVars

\* lines 51-61 and 73-75: the completion call raises, or its content is None
LlmFails ==
    /\ pc = "call_llm"
    /\ \E kind \in {"raise", "none"} : llm' = [kind |-> kind]
    /\ sub_queries' = DecomposeQuery(query, llm')
    /\ pc' = "returned"
    /\ UNCHANGED <<vector_store, documents, reranker, query, k_arg, years,
                   pos, all_results, results_by_year, output, contrib, searches>>
    /\ UNCHANGED nonRagVars

\* lines 61-71
DecomposeParse ==
    /\ pc = "parse"
    /\ sub_queries' = DecomposeQuery(query, llm)
    /\ pc' = "returned"
    /\ UNCHANGED <<vector_store, documents, reranker, query, k_arg, years, llm,
                   pos, all_results, results_by_year, output, contrib, searches>>
    /\ UNCHANGED nonRagVars

DecomposeNext ==
    \/ LlmAnswers
    \/ LlmFails
    \/ DecomposeParse

SpecDecompose == DecomposeInit /\ [][DecomposeNext]_vars

-----------------------------------------------------------------------------
(* Claims about decompose_query *)

\* the text is one JSON value, with blanks and line breaks around it at most
OneJsonValue(text) ==
    \E i \in 1..Len(text) :
        /\ text[i] \in JsonTokens
        /\ \A m \in (1..Len(text)) \ {i} : text[m] \in Whitespace

\* the JSON value a text consists of
ValueIn(text) == JsonValue(CHOOSE j \in JsonTokens : j \in Range(text))

\* C6: decompose_query(q) returns exactly [q], and no error reaches the caller,
\* when the model call raises, when the model's text is not parseable JSON, and
\* when the parsed JSON value is not a non-empty array.
C6_DecomposeFallback ==
    /\ pc \in {"call_llm", "parse", "returned"}
    /\ pc = "returned" =>
          /\ llm.kind = "raise" => sub_queries = <<query>>
          /\ (llm.kind = "text" /\ ~OneJsonValue(llm.text)) => sub_queries = <<query>>
          /\ (llm.kind = "text" /\ OneJsonValue(llm.text)
                /\ (ValueIn(llm.text).type # "array" \/ ValueIn(llm.text).items = << >>))
                => sub_queries = <<query>>

\* C6 witness: the three cases each returned [q]: here the empty array
C6_Witness ==
    /\ pc = "returned"
    /\ llm = [kind |-> "text", text |-> <<"J_ARR0">>]
    /\ sub_queries = <<query>>

\* C7: decompose_query returns a sequence of strings of length 1 to 3.
C7_OneToThreeStrings ==
    pc = "returned" =>
        /\ Len(sub_queries) \in 1..3
        /\ \A i \in 1..Len(sub_queries) : sub_queries[i].type = "str"

-----------------------------------------------------------------------------
(* core/rag_pipeline.py: hybrid_search, _merge_results, rerank, _deduplicate *)

\* number of distinct passages the vector store and the corpus draw from
NDocs == 12

\* the smoothing term of reciprocal rank fusion (line 157)
RRF_K == 60

\* results[:5] (line 132)
TopPerSubQuery == 5

\* unique_results[:10] (line 137)
TopOverall == 10

\* hybrid_search(sq, k=20) (line 126)
RetrieveK == 20

\* hybrid_search(filtered_query, k=5) (line 112)
CompareK == 5

\* a passage: its first 200 characters, and what follows them
Passage(head, tail) == [head |-> head, tail |-> tail]

\* an item of the store or of the corpus
Item(content, origin) == [content |-> content, metadata |-> origin]

AllPassages == [i \in 1..NDocs |-> Passage(i, 0)]

Half == NDocs \div 2

ItemsFrom(origin, first, last) ==
    [i \in 1..(last - first + 1) |-> Item(AllPassages[first + i - 1], origin)]

NoStore == [present |-> FALSE, items |-> << >>]

Store(items) == [present |-> TRUE, items |-> items]

\* the pipelines constructed: <<vector_store, documents>>
Layouts ==
    { <<NoStore, << >>>>,
      <<Store(<< >>), << >>>>,
      <<Store(ItemsFrom("store", 1, NDocs)), << >>>>,
      <<NoStore, ItemsFrom("corpus", 1, NDocs)>>,
      <<Store(ItemsFrom("store", 1, Half)), ItemsFrom("corpus", Half + 1, NDocs)>>,
      <<Store(ItemsFrom("store", 1, NDocs)), ItemsFrom("corpus", 1, NDocs)>>,
      <<Store(ItemsFrom("store", 1, Half + 1)), ItemsFrom("corpus", Half, NDocs)>> }

Take(s, n) == SubSeq(s, 1, IF n < Len(s) THEN n ELSE Len(s))

\* scores a ranking model gives n items: all different, the best at a place
\* the query decides
RankOffsets == {0, 4}

RankScores(n, off) == [i \in 1..n |-> (i - 1 + off) % n]

\* np.argsort(scores)[-k:][::-1] (line 88), for scores all different
TopKIndices(scores, k) ==
    LET n == Len(scores)
        asc == [p \in 1..n |->
                   CHOOSE i \in 1..n :
                       Cardinality({j \in 1..n : scores[j] < scores[i]}) = p - 1]
        m == IF k = 0 \/ k > n THEN n ELSE k
    IN [p \in 1..m |-> asc[n - p + 1]]

\* vector_store.similarity_search(query, k): the k most similar items held
SimilaritySearch(store, off, k) ==
    LET top == TopKIndices(RankScores(Len(store.items), off), k)
    IN [p \in 1..Len(top) |-> store.items[top[p]]]

\* lines 81: the dense leg
DenseLeg(store, off, k) ==
    IF store.present /\ store.items # << >> THEN SimilaritySearch(store, off, k) ELSE << >>

\* the sparse leg taking every document, whatever k
SparseLegAll(docs, off, k) ==
    IF docs # << >>
    THEN LET top == TopKIndices(RankScores(Len(docs), off), Len(docs))
         IN [p \in 1..Len(top) |-> docs[top[p]]]
    ELSE << >>

\* lines 84-89: the sparse leg
SparseLeg(docs, off, k) ==
    IF docs # << >>
    THEN LET top == TopKIndices(RankScores(Len(docs), off), k)
         IN [p \in 1..Len(top) |-> docs[top[p]]]
    ELSE << >>

\* scores as fractions
Frac(num, den) == [num |-> num, den |-> den]

\* a + b, over the denominator of a when that of b divides it
FracAdd(a, b) ==
    IF a.den % b.den = 0
    THEN Frac(a.num + b.num * (a.den \div b.den), a.den)
    ELSE Frac(a.num * b.den + b.num * a.den, a.den * b.den)

FracLess(a, b) ==
    IF a.den = b.den THEN a.num < b.num ELSE a.num * b.den < b.num * a.den

FracEq(a, b) ==
    IF a.den = b.den THEN a.num = b.num ELSE a.num * b.den = b.num * a.den

\* the contribution counted from rank 0
RRFZeroBased(rank) == Frac(1, RRF_K + rank - 1)

\* 1 / (60 + rank)
RRF(rank) == Frac(1, RRF_K + rank)

\* the position of content among the entries of results_dict, 0 when absent
EntryOf(entries, content) ==
    IF \E i \in 1..Len(entries) : entries[i].content = content
    THEN CHOOSE i \in 1..Len(entries) : entries[i].content = content
    ELSE 0

\* line 158: the tag an entry gets in the dense loop
DenseTag(current) == "hybrid"

\* lines 174-175: the tag an entry gets in the sparse loop
SparseTag(current) == IF current = "dense" THEN "hybrid" ELSE current

\* lines 144-158: the dense loop, over the first n dense results
RECURSIVE MergeDense(_, _)
MergeDense(dense, n) ==
    IF n = 0 THEN << >>
    ELSE LET before == MergeDense(dense, n - 1)
             content == dense[n].content
             entries == IF EntryOf(before, content) = 0
                        THEN Append(before, [content |-> content,
                                             metadata |-> dense[n].metadata,
                                             score |-> Frac(0, 1),
                                             source |-> "dense"])
                        ELSE before
             i == EntryOf(entries, content)
         IN [entries EXCEPT ![i].score = FracAdd(@, RRF(n)),
                            ![i].source = DenseTag(@)]

\* lines 161-175: the sparse loop, over the first n sparse results
RECURSIVE MergeSparse(_, _, _)
MergeSparse(start, sparse, n) ==
    IF n = 0 THEN start
    ELSE LET before == MergeSparse(start, sparse, n - 1)
             content == sparse[n].content
             entries == IF EntryOf(before, content) = 0
                        THEN Append(before, [content |-> content,
                                             metadata |-> sparse[n].metadata,
                                             score |-> Frac(0, 1),
                                             source |-> "sparse"])
                        ELSE before
             i == EntryOf(entries, content)
         IN [entries EXCEPT ![i].score = FracAdd(@, RRF(n)),
                            ![i].source = SparseTag(@)]

\* where sorted(..., reverse=True) puts x among results already sorted: after
\* every result whose score is not lower (the sort is stable)
RECURSIVE InsertDesc(_, _)
InsertDesc(sorted, x) ==
    IF sorted = << >> THEN <<x>>
    ELSE IF FracLess(Head(sorted).score, x.score) THEN <<x>> \o sorted
    ELSE <<Head(sorted)>> \o InsertDesc(Tail(sorted), x)

\* sorted(results, key=lambda x: x.score, reverse=True), on the first n results
RECURSIVE SortDesc(_, _)
SortDesc(rs, n) == IF n = 0 THEN << >> ELSE InsertDesc(SortDesc(rs, n - 1), rs[n])

\* lines 139-188
MergeResults(dense, sparse) ==
    LET entries == MergeSparse(MergeDense(dense, Len(dense)), sparse, Len(sparse))
    IN SortDesc(entries, Len(entries))

\* lines 77-93, given how the two legs rank their items for the query
HybridSearch(store, docs, doff, soff, k) ==
    MergeResults(DenseLeg(store, doff, k), SparseLeg(docs, soff, k))

\* the cross-encoder's score of a (query, passage) pair; seed stands for what
\* the query makes of the model
RerankSeeds == {0, 5, 10}

Predict(seed, content) == (content.head + seed) % NDocs

\* the scores overwritten, the order left as it was
RerankUnsorted(seed, rs) ==
    [i \in 1..Len(rs) |-> [rs[i] EXCEPT !.score = Frac(Predict(seed, rs[i].content), 1)]]

\* lines 97-103
Rerank(seed, rs) ==
    LET scored == [i \in 1..Len(rs) |->
                      [rs[i] EXCEPT !.score = Frac(Predict(seed, rs[i].content), 1)]]
    IN SortDesc(scored, Len(scored))

\* deduplication keyed by the whole content
RECURSIVE DeduplicateExact(_, _)
DeduplicateExact(rs, n) ==
    IF n = 0 THEN << >>
    ELSE LET before == DeduplicateExact(rs, n - 1)
         IN IF \E i \in 1..(n - 1) : rs[i].content = rs[n].content
            THEN before
            ELSE Append(before, rs[n])

\* lines 190-206: the first result of each 200-character prefix, in order
RECURSIVE Deduplicate(_, _)
Deduplicate(rs, n) ==
    IF n = 0 THEN << >>
    ELSE LET before == Deduplicate(rs, n - 1)
         IN IF \E i \in 1..(n - 1) : rs[i].content.head = rs[n].content.head
            THEN before
            ELSE Append(before, rs[n])

-----------------------------------------------------------------------------
(* core/rag_pipeline.py: retrieve *)

\* what the decomposition call may answer inside retrieve
RetrieveTexts == {<<"TXT">>, <<"J_ARR2">>, <<"J_ARR4">>, <<"J_ARRNUM">>}

\* a search or a re-rank with this sub-query raises: str methods on a number
\* (line 86), or the store or the scoring model refusing it
SubQueryRaises(sq) ==
    sq.type # "str" /\ (documents # << >> \/ vector_store.present)

\* a search with this sub-query returns
SubQuerySearches(sq) ==
    sq.type = "str" \/ (documents = << >> /\ vector_store.items = << >>)

\* results[:5] without the slice
TopOfAll(rs) == rs

\* line 132: results[:5]
TopOf(rs) == Take(rs, TopPerSubQuery)

\* unique_results[:10] without the slice
FinalOfAll(rs) == rs

\* line 137: unique_results[:10]
FinalOf(rs) == Take(rs, TopOverall)

RetrieveInit ==
    /\ \E layout \in Layouts : vector_store = layout[1] /\ documents = layout[2]
    /\ reranker = "None"
    /\ query = Str(<<"risks">>)
    /\ k_arg = 0
    /\ years = << >>
    /\ llm = [kind |-> "pending"]
    /\ sub_queries = << >>
    /\ pos = 0
    /\ all_results = << >>
    /\ results_by_year = << >>
    /\ output = << >>
    /\ contrib = << >>
    /\ searches = << >>
    /\ pc = "decompose"
    /\ IdleExec
    /\ IdlePlan
    /\ IdleLater

\* line 121
RetrieveDecompose ==
    /\ pc = "decompose"
    /\ \E outcome \in LlmOutcomes(RetrieveTexts) :
          /\ llm' = outcome
          /\ sub_queries' = DecomposeQuery(query, outcome)
    /\ pos' = 1
    /\ pc' = "sub_queries"
    /\ UNCHANGED <<vector_store, documents, reranker, query, k_arg, years,
                   all_results, results_by_year, output, contrib, searches>>
    /\ UNCHANGED nonRagVars

\* lines 124-132: one iteration of the loop over sub_queries
RetrieveSubQuery ==
    /\ pc = "sub_queries"
    /\ pos <= Len(sub_queries)
    /\ SubQuerySearches(sub_queries[pos])
    /\ \E doff, soff \in RankOffsets : \E seed \in RerankSeeds :
          LET found == HybridSearch(vector_store, documents, doff, soff, RetrieveK)
              ranked == IF found # << >> THEN Rerank(seed, found) ELSE found
          IN /\ all_results' = all_results \o TopOf(ranked)
             /\ contrib' = Append(contrib, Len(all_results') - Len(all_results))
             /\ reranker' = IF found # << >> THEN "loaded" ELSE reranker
             /\ searches' = Append(searches, [query |-> sub_queries[pos],
                                              k |-> RetrieveK, found |-> found])
    /\ pos' = pos + 1
    /\ UNCHANGED <<vector_store, documents, query, k_arg, years, llm, sub_queries,
                   results_by_year, output, pc>>
    /\ UNCHANGED nonRagVars

\* lines 126-130: the search or the re-rank raises
RetrieveSubQueryRaises ==
    /\ pc = "sub_queries"
    /\ pos <= Len(sub_queries)
    /\ SubQueryRaises(sub_queries[pos])
    /\ pc' = "raised"
    /\ UNCHANGED ragVars
    /\ UNCHANGED nonRagVars

\* lines 135-137
RetrieveReturn ==
    /\ pc = "sub_queries"
    /\ pos > Len(sub_queries)
    /\ output' = FinalOf(Deduplicate(all_results, Len(all_results)))
    /\ pc' = "returned"
    /\ UNCHANGED <<vector_store, documents, reranker, query, k_arg, years, llm,
                   sub_queries, pos, all_results, results_by_year, contrib, searches>>
    /\ UNCHANGED nonRagVars

RetrieveNext ==
    \/ RetrieveDecompose
    \/ RetrieveSubQuery
    \/ RetrieveSubQueryRaises
    \/ RetrieveReturn

SpecRetrieve == RetrieveInit /\ [][RetrieveNext]_vars

-----------------------------------------------------------------------------
(* Claims about retrieve *)

\* C8: retrieve returns at most 10 results, and each sub-query contributes at
\* most 5 results to the concatenated list, for every non-empty decomposition
\* output, whatever the number of sub-queries.
C8_TopKBounds ==
    /\ Len(contrib) <= Len(sub_queries)
    /\ \A i \in 1..Len(contrib) : contrib[i] <= 5
    /\ Len(all_results) <= 5 * Len(contrib)
    /\ pc = "returned" => Len(output) <= 10

\* C8 witness: four sub-queries, each of which found more than 5 results and
\* contributed 5, and more than 10 distinct results cut to 10
C8_Witness ==
    /\ pc = "returned"
    /\ Len(sub_queries) = 4
    /\ \A i \in 1..4 : Len(searches[i].found) > 5 /\ contrib[i] = 5
    /\ Len(Deduplicate(all_results, Len(all_results))) > 10
    /\ Len(output) = 10

-----------------------------------------------------------------------------
(* core/rag_pipeline.py: hybrid_search called on its own *)

\* largest k drawn besides the two the pipeline itself passes
MaxK == 3

KValues == (1..MaxK) \cup {CompareK, RetrieveK}

RagIdleLoop ==
    /\ reranker = "None"
    /\ llm = [kind |-> "pending"]
    /\ sub_queries = << >>
    /\ all_results = << >>
    /\ results_by_year = << >>
    /\ output = << >>
    /\ contrib = << >>
    /\ searches = << >>

HybridInit ==
    /\ \E layout \in Layouts : vector_store = layout[1] /\ documents = layout[2]
    /\ query \in UserQueries
    /\ k_arg \in KValues
    /\ years = << >>
    /\ pos = 0
    /\ RagIdleLoop
    /\ pc = "search"
    /\ IdleExec
    /\ IdlePlan
    /\ IdleLater

\* lines 77-93
HybridSearchCall ==
    /\ pc = "search"
    /\ \E doff, soff \in RankOffsets :
          /\ output' = HybridSearch(vector_store, documents, doff, soff, k_arg)
          /\ searches' = Append(searches, [query |-> query, k |-> k_arg, found |-> output'])
    /\ pc' = "returned"
    /\ UNCHANGED <<vector_store, documents, reranker, query, k_arg, years, llm,
                   sub_queries, pos, all_results, results_by_year, contrib>>
    /\ UNCHANGED nonRagVars

HybridNext == HybridSearchCall

SpecHybrid == HybridInit /\ [][HybridNext]_vars

-----------------------------------------------------------------------------
(* core/rag_pipeline.py: compare_across_years *)

\* longest years argument drawn
MaxYears == 2

YearSet == {"2023", "2024"}

\* the query passed on without its year
QualifyNone(q, year) == q

\* line 111: f"{query} (year: {year})"
Qualify(q, year) == Str(q.text \o <<" (year: ", year, ")">>)

CompareInit ==
    /\ \E layout \in Layouts : vector_store = layout[1] /\ documents = layout[2]
    /\ query \in UserQueries
    /\ k_arg = 0
    /\ years \in SeqsUpTo(YearSet, MaxYears)
    /\ pos = 1
    /\ RagIdleLoop
    /\ pc = "years"
    /\ IdleExec
    /\ IdlePlan
    /\ IdleLater

\* lines 109-113: one iteration of the loop over years
CompareYear ==
    /\ pc = "years"
    /\ pos <= Len(years)
    /\ \E doff, soff \in RankOffsets :
          LET found == HybridSearch(vector_store, documents, doff, soff, CompareK)
          IN /\ results_by_year' = Put(results_by_year, years[pos], found)
             /\ searches' = Append(searches, [query |-> Qualify(query, years[pos]),
                                              k |-> CompareK, found |-> found])
    /\ pos' = pos + 1
    /\ UNCHANGED <<vector_store, documents, reranker, query, k_arg, years, llm,
                   sub_queries, all_results, output, contrib, pc>>
    /\ UNCHANGED nonRagVars

\* line 115
CompareReturn ==
    /\ pc = "years"
    /\ pos > Len(years)
    /\ pc' = "returned"
    /\ UNCHANGED ragVars
    /\ UNCHANGED nonRagVars

CompareNext ==
    \/ CompareYear
    \/ CompareReturn

SpecCompare == CompareInit /\ [][CompareNext]_vars

\* the mapping has exactly the years given as keys, each mapped to what one
\* k=5 hybrid search on the query with that year's qualifier returned, with no
\* decomposition and no re-rank
ComparePerYearSearches ==
    /\ DOMAIN results_by_year = Range(years)
    /\ Len(searches) = Len(years)
    /\ \A i \in 1..Len(searches) :
          /\ searches[i].query = Str(query.text \o <<" (year: ", years[i], ")">>)
          /\ searches[i].k = 5
    /\ \A y \in Range(years) :
          \E i \in 1..Len(searches) :
              years[i] = y /\ results_by_year[y] = searches[i].found
    /\ llm.kind = "pending"
    /\ reranker = "None"

-----------------------------------------------------------------------------
(* core/rag_pipeline.py: _merge_results called on its own *)

\* longest ranked list drawn for a leg
MaxLeg == 2

\* number of different contents the two legs draw from
MergeContents == 3

\* the ranked lists a leg may hand over; a content may come more than once
\* (the store or the corpus holding the same text twice)
LegLists(origin) ==
    SeqsUpTo({Item(Passage(h, 0), origin) : h \in 1..MergeContents}, MaxLeg)

RagIdleCall ==
    /\ vector_store = NoStore
    /\ documents = << >>
    /\ k_arg = 0
    /\ years = << >>
    /\ pos = 0
    /\ RagIdleLoop

MergeInit ==
    /\ dense_results \in LegLists("store")
    /\ sparse_results \in LegLists("corpus")
    /\ in_results = << >>
    /\ scorer = 0
    /\ query = Str(<<"risks">>)
    /\ RagIdleCall
    /\ pc = "merge"
    /\ IdleExec
    /\ IdlePlan
    /\ IdleMem
    /\ IdleLazy
    /\ IdleCite
    /\ IdleAudit

\* lines 139-188
MergeCall ==
    /\ pc = "merge"
    /\ output' = MergeResults(dense_results, sparse_results)
    /\ pc' = "returned"
    /\ UNCHANGED <<vector_store, documents, reranker, query, k_arg, years, llm,
                   sub_queries, pos, all_results, results_by_year, contrib, searches>>
    /\ UNCHANGED <<execVars, planVars, laterVars>>

MergeNext == MergeCall

SpecMerge == MergeInit /\ [][MergeNext]_vars

-----------------------------------------------------------------------------
(* Claims about _merge_results *)

\* the ranks (1-based positions) at which a content occurs in a leg
RanksOf(leg, content) == {r \in 1..Len(leg) : leg[r].content = content}

ContentsOf(leg) == {leg[r].content : r \in 1..Len(leg)}

\* C11: in the output of _merge_results, for all dense and sparse ranked
\* lists, a result whose content appears in both legs is tagged hybrid, one
\* whose content appears only in the dense leg is tagged dense, and one whose
\* content appears only in the sparse leg is tagged sparse.
C11_SourceTags ==
    pc = "returned" =>
        \A i \in 1..Len(output) :
            LET inDense == output[i].content \in ContentsOf(dense_results)
                inSparse == output[i].content \in ContentsOf(sparse_results)
            IN /\ (inDense /\ inSparse) => output[i].source = "hybrid"
               /\ (inDense /\ ~inSparse) => output[i].source = "dense"
               /\ (~inDense /\ inSparse) => output[i].source = "sparse"

\* the sum of 1/(60 + r) over the ranks r of a set
RECURSIVE SumOverRanks(_)
SumOverRanks(ranks) ==
    IF ranks = {} THEN Frac(0, 1)
    ELSE LET r == CHOOSE x \in ranks : \A y \in ranks : x >= y
         IN FracAdd(SumOverRanks(ranks \ {r}), Frac(1, 60 + r))

\* one result per distinct content of either leg
OnePerContent ==
    /\ {output[i].content : i \in 1..Len(output)}
          = ContentsOf(dense_results) \cup ContentsOf(sparse_results)
    /\ \A i, j \in 1..Len(output) : i < j => output[i].content # output[j].content

SortedByScore ==
    \A i \in 1..(Len(output) - 1) : ~FracLess(output[i].score, output[i + 1].score)

\* C12 as stated: _merge_results outputs exactly one result per distinct
\* content occurring in either leg, whose fused score is the sum, over the legs
\* in which the content appears, of 1/(60 + rank) with rank its position in
\* that leg (one position per leg); the output is sorted by descending score.
C12_OneTermPerLeg ==
    pc = "returned" =>
        /\ OnePerContent
        /\ SortedByScore
        /\ \A i \in 1..Len(output) :
              LET d == RanksOf(dense_results, output[i].content)
                  s == RanksOf(sparse_results, output[i].content)
              IN \E dr \in (IF d = {} THEN {{}} ELSE {{r} : r \in d}) :
                 \E sr \in (IF s = {} THEN {{}} ELSE {{r} : r \in s}) :
                     FracEq(output[i].score, FracAdd(SumOverRanks(dr), SumOverRanks(sr)))

\* C12 as amended: one result per distinct content of either leg, whose fused
\* score is the sum of 1/(60 + rank) over every rank at which the content
\* occurs in the dense leg and in the sparse leg; the output is sorted by
\* descending score.
C12_OneTermPerOccurrence ==
    pc = "returned" =>
        /\ OnePerContent
        /\ SortedByScore
        /\ \A i \in 1..Len(output) :
              FracEq(output[i].score,
                     FracAdd(SumOverRanks(RanksOf(dense_results, output[i].content)),
                             SumOverRanks(RanksOf(sparse_results, output[i].content))))

\* C12 witness: a content that came second in the dense leg and first in the
\* sparse leg was fused to 1/62 + 1/61 and put before a dense-only content
\* that came first
C12_Witness ==
    /\ pc = "returned"
    /\ Len(dense_results) = 2
    /\ dense_results[1].content # dense_results[2].content
    /\ Len(sparse_results) = 1
    /\ sparse_results[1].content = dense_results[2].content
    /\ Len(output) = 2
    /\ output[1].content = dense_results[2].content
    /\ output[1].score = Frac(123, 3782)

-----------------------------------------------------------------------------
(* core/rag_pipeline.py: _deduplicate called on its own *)

\* longest results list drawn for _deduplicate and for rerank
MaxResults == 3

\* number of different 200-character prefixes, and of different continuations
\* of one prefix, among the results drawn
Prefixes == 2

Continuations == 2

\* the RetrievalResults drawn: contents that share a prefix or not, found by
\* one leg or by both
ResultsDrawn ==
    {[content |-> Passage(h, t), metadata |-> "store", score |-> Frac(1, 61),
      source |-> src] : h \in 1..Prefixes, t \in 0..(Continuations - 1),
                        src \in {"hybrid", "sparse"}}

DedupInit ==
    /\ in_results \in SeqsUpTo(ResultsDrawn, MaxResults)
    /\ dense_results = << >>
    /\ sparse_results = << >>
    /\ scorer = 0
    /\ query = Str(<<"risks">>)
    /\ RagIdleCall
    /\ pc = "deduplicate"
    /\ IdleExec
    /\ IdlePlan
    /\ IdleMem
    /\ IdleLazy
    /\ IdleCite
    /\ IdleAudit

\* lines 190-206
DedupCall ==
    /\ pc = "deduplicate"
    /\ output' = Deduplicate(in_results, Len(in_results))
    /\ pc' = "returned"
    /\ UNCHANGED <<vector_store, documents, reranker, query, k_arg, years, llm,
                   sub_queries, pos, all_results, results_by_year, contrib, searches>>
    /\ UNCHANGED <<execVars, planVars, laterVars>>

DedupNext == DedupCall

SpecDedup == DedupInit /\ [][DedupNext]_vars

\* the positions of the results that are the first of their prefix
FirstOfPrefix ==
    {i \in 1..Len(in_results) :
        \A j \in 1..(i - 1) : in_results[j].content.head # in_results[i].content.head}

\* the p-th smallest element of a set of positions
NthOf(K, p) == CHOOSE i \in K : Cardinality({j \in K : j < i}) = p - 1

\* C13: _deduplicate keeps, for each distinct first-200-character prefix,
\* exactly the first result in input order having that prefix and drops every
\* later one, even when the contents differ after the prefix; the kept results
\* retain their relative input order.
C13_FirstOfEachPrefixKept ==
    pc = "returned" =>
        /\ Len(output) = Cardinality(FirstOfPrefix)
        /\ \A p \in 1..Len(output) : output[p] = in_results[NthOf(FirstOfPrefix, p)]

\* C13 witness: of two results with one prefix and different continuations the
\* second was dropped, and a later result with another prefix was kept after
\* the first
C13_Witness ==
    /\ pc = "returned"
    /\ Len(in_results) = 3
    /\ in_results[1].content.head = in_results[2].content.head
    /\ in_results[1].content.tail # in_results[2].content.tail
    /\ in_results[3].content.head # in_results[1].content.head
    /\ output = <<in_results[1], in_results[3]>>

-----------------------------------------------------------------------------
(* core/rag_pipeline.py: rerank called on its own *)

RerankInit ==
    /\ in_results \in SeqsUpTo(ResultsDrawn, MaxResults)
    /\ scorer \in RerankSeeds
    /\ reranker \in {"None", "loaded"}
    /\ dense_results = << >>
    /\ sparse_results = << >>
    /\ query = Str(<<"risks">>)
    /\ vector_store = NoStore
    /\ documents = << >>
    /\ k_arg = 0
    /\ years = << >>
    /\ pos = 0
    /\ llm = [kind |-> "pending"]
    /\ sub_queries = << >>
    /\ all_results = << >>
    /\ results_by_year = << >>
    /\ output = << >>
    /\ contrib = << >>
    /\ searches = << >>
    /\ pc = "rerank"
    /\ IdleExec
    /\ IdlePlan
    /\ IdleMem
    /\ IdleLazy
    /\ IdleCite
    /\ IdleAudit

\* lines 97-103: self.reranker loads the model when it is not loaded (lines
\* 44-45), predict scores the pairs, the loop writes the scores into the
\* results passed in, and sorted returns a new list
RerankCall ==
    /\ pc = "rerank"
    /\ reranker' = "loaded"
    /\ in_results' = [i \in 1..Len(in_results) |->
                         [in_results[i] EXCEPT
                             !.score = Frac(Predict(scorer, in_results[i].content), 1)]]
    /\ output' = Rerank(scorer, in_results)
    /\ pc' = "returned"
    /\ UNCHANGED <<vector_store, documents, query, k_arg, years, llm, sub_queries,
                   pos, all_results, results_by_year, contrib, searches>>
    /\ UNCHANGED <<dense_results, sparse_results, scorer>>
    /\ UNCHANGED <<execVars, planVars, memVars, lazyVars, citeVars, auditVars>>

\* line 98 with no pairs: the model is loaded all the same, and predict([])
\* raises in the releases of the library that look at sentences[0]
RerankEmptyRaises ==
    /\ pc = "rerank"
    /\ in_results = << >>
    /\ reranker' = "loaded"
    /\ pc' = "raised"
    /\ UNCHANGED <<vector_store, documents, query, k_arg, years, llm, sub_queries,
                   pos, all_results, results_by_year, output, contrib, searches>>
    /\ UNCHANGED <<execVars, planVars, laterVars>>

RerankNext ==
    \/ RerankCall
    \/ RerankEmptyRaises

SpecRerank == RerankInit /\ [][RerankNext]_vars

-----------------------------------------------------------------------------
(* Claims about rerank *)

Bijections(n) == {f \in [1..n -> 1..n] : \A i, j \in 1..n : f[i] = f[j] => i = j}

\* C14: rerank(query, results) returns a sequence with the same length and the
\* same members as results (a permutation), in which every result's score has
\* been overwritten by the scoring model's score for (query, that result's
\* content), ordered by non-increasing new score.
C14_RerankPermutesAndScores ==
    [][(pc = "rerank" /\ pc' = "returned") =>
          /\ Len(output') = Len(in_results)
          /\ \E f \in Bijections(Len(in_results)) :
                \A p \in 1..Len(in_results) :
                    /\ output'[p].content = in_results[f[p]].content
                    /\ output'[p].metadata = in_results[f[p]].metadata
                    /\ output'[p].source = in_results[f[p]].source
                    /\ output'[p] = in_results'[f[p]]
          /\ \A p \in 1..Len(output') :
                output'[p].score = Frac(Predict(scorer, output'[p].content), 1)
          /\ \A p \in 1..(Len(output') - 1) :
                output'[p].score.num >= output'[p + 1].score.num]_vars

\* C14 witness: three results came back in another order than they went in,
\* two of them with the same new score
C14_Witness ==
    /\ pc = "returned"
    /\ Len(in_results) = 3
    /\ Len(output) = 3
    /\ output[1] = in_results[3]
    /\ output[2].score = output[3].score
    /\ output[2].content # output[3].content
    /\ output[1].score # output[2].score

\* C15: rerank(query, results) called with an empty results sequence returns
\* it unchanged and neither loads nor invokes the scoring model (the model
\* stays uninitialised if it was uninitialised before the call).
C15_EmptyLeavesModelAlone ==
    [][(pc = "rerank" /\ in_results = << >>) =>
          /\ pc' = "returned"
          /\ output' = in_results
          /\ reranker' = reranker]_vars

-----------------------------------------------------------------------------
(* core/rag_pipeline.py: the reranker property, read by concurrent callers *)

\* number of callers that read the property
NCallers == 3

Callers == 1..NCallers

\* the n-th CrossEncoder constructed
Instance(n) == "CrossEncoder#" \o ToString(n)

LazyInit ==
    /\ reranker = "None"
    /\ callers = [c \in Callers |-> [at |-> "check", made |-> "None", got |-> "None"]]
    /\ constructed = 0
    /\ vector_store = NoStore
    /\ documents = << >>
    /\ query = Str(<<"risks">>)
    /\ k_arg = 0
    /\ years = << >>
    /\ pos = 0
    /\ llm = [kind |-> "pending"]
    /\ sub_queries = << >>
    /\ all_results = << >>
    /\ results_by_year = << >>
    /\ output = << >>
    /\ contrib = << >>
    /\ searches = << >>
    /\ pc = "property"
    /\ IdleExec
    /\ IdlePlan
    /\ IdleMem
    /\ IdleFusion
    /\ IdleCite
    /\ IdleAudit

\* what a caller of the property leaves alone
LazyFrame ==
    /\ UNCHANGED <<vector_store, documents, query, k_arg, years, llm, sub_queries,
                   pos, all_results, results_by_year, output, contrib, searches, pc>>
    /\ UNCHANGED <<execVars, planVars, memVars, fusionVars, citeVars, auditVars>>

\* line 44: if self._reranker is None
CallerCheck(c) ==
    /\ callers[c].at = "check"
    /\ callers' = [callers EXCEPT ![c].at = IF reranker = "None" THEN "construct"
                                            ELSE "return"]
    /\ UNCHANGED <<reranker, constructed>>
    /\ LazyFrame

\* line 45, right-hand side: CrossEncoder(...) builds a model
CallerConstruct(c) ==
    /\ callers[c].at = "construct"
    /\ constructed' = constructed + 1
    /\ callers' = [callers EXCEPT ![c].at = "assign", ![c].made = Instance(constructed')]
    /\ UNCHANGED reranker
    /\ LazyFrame

\* line 45, assignment: self._reranker = <the model built>
CallerAssign(c) ==
    /\ callers[c].at = "assign"
    /\ reranker' = callers[c].made
    /\ callers' = [callers EXCEPT ![c].at = "return"]
    /\ UNCHANGED constructed
    /\ LazyFrame

\* line 46: return self._reranker
CallerReturn(c) ==
    /\ callers[c].at = "return"
    /\ callers' = [callers EXCEPT ![c].at = "done", ![c].got = reranker]
    /\ UNCHANGED <<reranker, constructed>>
    /\ LazyFrame

LazyNext ==
    \/ \E c \in Callers : CallerCheck(c)
    \/ \E c \in Callers : CallerConstruct(c)
    \/ \E c \in Callers : CallerAssign(c)
    \/ \E c \in Callers : CallerReturn(c)

SpecLazy == LazyInit /\ [][LazyNext]_vars

\* C16: the re-ranking model of one pipeline is initialised exactly once: for
\* any number of callers that access the reranker for the first time
\* concurrently (any interleaving of the None check and the assignment), the
\* model constructor runs once and all callers, then and thereafter, use that
\* same instance.
C16_InitialisedOnce ==
    /\ constructed <= 1
    /\ \A c, d \in Callers :
          (callers[c].at = "done" /\ callers[d].at = "done")
              => callers[c].got = callers[d].got

-----------------------------------------------------------------------------
(* core/citations.py: Citation and CitationTracker *)

\* most add_citation calls made on one tracker
MaxCitations == 3

Citation(source_type, year, section, page_range, url, timestamp) ==
    [source_type |-> source_type, ticker |-> "AAPL", year |-> year,
     section |-> section, page_range |-> page_range, url |-> url,
     timestamp |-> timestamp]

\* the citations the agents build: filing citations (sec_researcher.py:65-71),
\* two of them differing only by their pages, and market-data citations
\* (market_data.py:61-68)
CitationsDrawn ==
    { Citation("10-K", "2023", "Item 1A", "1-2", "sec.gov/aapl-2023", "None"),
      Citation("10-K", "2023", "Item 1A", "3-4", "sec.gov/aapl-2023", "None"),
      Citation("10-K", "2024", "Item 7", "None", "sec.gov/aapl-2024", "None"),
      Citation("market_data", "None", "None", "None",
               "finance.yahoo.com/quote/AAPL", "t1"),
      Citation("market_data", "None", "None", "None",
               "finance.yahoo.com/quote/AAPL", "t2") }

ClaimsDrawn == {"Current market metrics", "Supply chain risk"}

\* lines 14-18, the text as the sequence of its pieces
ToMarkdown(c) ==
    IF c.source_type = "10-K"
    THEN <<"[", c.ticker, " 10-K ", c.year, ", ", c.section, "]", "(", c.url, ")">>
    ELSE <<"[", "Market Data: ", c.ticker, " at ", c.timestamp, "]">>

\* the list lines with no test of what was rendered before
RECURSIVE SourceLinesAll(_, _)
SourceLinesAll(cs, n) ==
    IF n = 0 THEN << >>
    ELSE Append(SourceLinesAll(cs, n - 1), [n |-> n, text |-> ToMarkdown(cs[n])])

\* lines 51-56: the numbered lines of the first n citations
RECURSIVE SourceLines(_, _)
SourceLines(cs, n) ==
    IF n = 0 THEN << >>
    ELSE LET before == SourceLines(cs, n - 1)
             citation_str == ToMarkdown(cs[n])
         IN IF \E i \in 1..Len(before) : before[i].text = citation_str
            THEN before
            ELSE Append(before, [n |-> n, text |-> citation_str])

\* lines 44-58: the text returned, as its heading and its list lines
FormatForReport(cs) ==
    IF cs = << >> THEN [heading |-> "", lines |-> << >>]
    ELSE [heading |-> "## Sources", lines |-> SourceLines(cs, Len(cs))]

\* the claim's list with no memory of what it held
AddToFresh(map, claim, citation) ==
    [k \in DOMAIN map \cup {claim} |-> IF k = claim THEN <<citation>> ELSE map[k]]

\* lines 29-32: claim_to_citation after the claim got one more citation
AddTo(map, claim, citation) ==
    [k \in DOMAIN map \cup {claim} |->
        IF k = claim
        THEN Append(IF claim \in DOMAIN map THEN map[claim] ELSE << >>, citation)
        ELSE map[k]]

\* lines 35-42
ValidateCitations(map) == [claim \in DOMAIN map |-> Len(map[claim]) > 0]

CiteInit ==
    /\ citations = << >>
    /\ claim_to_citation = << >>
    /\ rendered = [heading |-> "none", lines |-> << >>]
    /\ validation = << >>
    /\ pc = "tracking"
    /\ IdleExec
    /\ IdlePlan
    /\ IdleMem
    /\ IdleRag
    /\ IdleFusion
    /\ IdleLazy
    /\ IdleAudit

\* lines 27-33
AddCitation ==
    /\ pc \in {"tracking", "validated", "reported"}
    /\ Len(citations) < MaxCitations
    /\ \E claim \in ClaimsDrawn : \E citation \in CitationsDrawn :
          /\ claim_to_citation' = AddTo(claim_to_citation, claim, citation)
          /\ citations' = Append(citations, citation)
    /\ pc' = "tracking"
    /\ UNCHANGED <<rendered, validation>>
    /\ UNCHANGED <<execVars, planVars, memVars, ragVars, fusionVars, lazyVars, auditVars>>

\* lines 35-42
ValidateCall ==
    /\ pc \in {"tracking", "validated", "reported"}
    /\ validation' = ValidateCitations(claim_to_citation)
    /\ pc' = "validated"
    /\ UNCHANGED <<citations, claim_to_citation, rendered>>
    /\ UNCHANGED <<execVars, planVars, memVars, ragVars, fusionVars, lazyVars, auditVars>>

\* lines 44-58
FormatCall ==
    /\ pc \in {"tracking", "validated", "reported"}
    /\ rendered' = FormatForReport(citations)
    /\ pc' = "reported"
    /\ UNCHANGED <<citations, claim_to_citation, validation>>
    /\ UNCHANGED <<execVars, planVars, memVars, ragVars, fusionVars, lazyVars, auditVars>>

CiteNext ==
    \/ AddCitation
    \/ ValidateCall
    \/ FormatCall

SpecCite == CiteInit /\ [][CiteNext]_vars

-----------------------------------------------------------------------------
(* Claims about the citation tracker *)

\* where a rendered string was first added
FirstAdded(text) ==
    CHOOSE i \in 1..Len(citations) :
        /\ ToMarkdown(citations[i]) = text
        /\ \A j \in 1..(i - 1) : ToMarkdown(citations[j]) # text

\* C17: after any sequence of add_citation calls on a CitationTracker,
\* format_for_report renders the citation of every added claim at least once,
\* and each distinct rendered citation string appears exactly once in the
\* rendered list, in order of first addition.
C17_EveryCitationOnceInOrder ==
    pc = "reported" =>
        LET lines == rendered.lines
        IN /\ \A claim \in DOMAIN claim_to_citation :
                 \A k \in 1..Len(claim_to_citation[claim]) :
                     \E p \in 1..Len(lines) :
                         lines[p].text = ToMarkdown(claim_to_citation[claim][k])
           /\ \A p, q \in 1..Len(lines) : p # q => lines[p].text # lines[q].text
           /\ \A p \in 1..Len(lines) :
                 \E i \in 1..Len(citations) : lines[p].text = ToMarkdown(citations[i])
           /\ \A p, q \in 1..Len(lines) :
                 p < q => FirstAdded(lines[p].text) < FirstAdded(lines[q].text)

\* C17 witness: three citations were added for two claims, the third rendering
\* like the first, and the report lists two sources in the order they came
C17_Witness ==
    /\ pc = "reported"
    /\ Len(citations) = 3
    /\ DOMAIN claim_to_citation = ClaimsDrawn
    /\ citations[1] # citations[3]
    /\ ToMarkdown(citations[1]) = ToMarkdown(citations[3])
    /\ Len(rendered.lines) = 2
    /\ rendered.lines[1].text = ToMarkdown(citations[1])
    /\ rendered.lines[2].text = ToMarkdown(citations[2])

\* text is [label](url) for this url
IsLinkTo(text, url) ==
    /\ Len(text) >= 6
    /\ text[1] = "["
    /\ text[Len(text) - 3] = "]"
    /\ text[Len(text) - 2] = "("
    /\ text[Len(text) - 1] = url
    /\ text[Len(text)] = ")"

LabelOf(text) == SubSeq(text, 2, Len(text) - 4)

\* C18: for every Citation of either source type (filing or market_data),
\* to_markdown renders a markdown link of the form [label](url) that carries
\* the citation's url, with a label text that differs by source_type.
C18_RendersLinkWithUrl ==
    pc = "reported" =>
        /\ \A i \in 1..Len(citations) :
              /\ IsLinkTo(ToMarkdown(citations[i]), citations[i].url)
              /\ \E p \in 1..Len(rendered.lines) :
                    rendered.lines[p].text = ToMarkdown(citations[i])
        /\ \A i, j \in 1..Len(citations) :
              citations[i].source_type # citations[j].source_type
                  => LabelOf(ToMarkdown(citations[i])) # LabelOf(ToMarkdown(citations[j]))

\* s is a prefix of t
IsPrefix(s, t) == Len(s) <= Len(t) /\ SubSeq(t, 1, Len(s)) = s

\* C24: across any sequence of add_citation, validate_citations and
\* format_for_report calls, a CitationTracker only grows by appending: the
\* earlier citations sequence is a prefix of the later one, each claim's
\* earlier citation list is a prefix of its later list, no claim key is ever
\* removed, and validate_citations and format_for_report leave the tracker's
\* state unchanged.
C24_GrowsByAppending ==
    [][/\ IsPrefix(citations, citations')
       /\ DOMAIN claim_to_citation \subseteq DOMAIN claim_to_citation'
       /\ \A claim \in DOMAIN claim_to_citation :
             IsPrefix(claim_to_citation[claim], claim_to_citation'[claim])
       /\ pc' \in {"validated", "reported"} =>
             /\ citations' = citations
             /\ claim_to_citation' = claim_to_citation]_vars

\* C24 witness: a tracker that was validated and rendered with one citation
\* and has since got two more, two of the three for one claim
C24_Witness ==
    /\ pc = "tracking"
    /\ Len(citations) = 3
    /\ rendered.heading = "## Sources"
    /\ Len(rendered.lines) = 1
    /\ DOMAIN validation # {}
    /\ \E claim \in DOMAIN claim_to_citation : Len(claim_to_citation[claim]) = 2

-----------------------------------------------------------------------------
(* agents/auditor.py: verify, _verify_citations, _verify_numbers *)

\* most sentences (pieces between periods) of a report drawn
MaxSentences == 2

\* a number held by the market-data mapping
IntVal(n) == [kind |-> "int", val |-> n]

\* what the mapping may hold under each numeric key: None, zero, or a figure
FieldValues ==
    [current_price |-> {NoneVal, IntVal(0), IntVal(21), IntVal(100)},
     shares_outstanding |-> {NoneVal, IntVal(0), IntVal(5), IntVal(1000000)},
     market_cap |-> {NoneVal, IntVal(0), IntVal(100), IntVal(101), IntVal(105),
                     IntVal(100000000), IntVal(200000000)}]

\* the market-data mappings drawn: any of the three keys may be missing
MarketDataDrawn ==
    UNION {{m \in [keys -> UNION {FieldValues[k] : k \in DOMAIN FieldValues}] :
               \A k \in keys : m[k] \in FieldValues[k]} :
           keys \in SUBSET (DOMAIN FieldValues)}

\* a sentence of the report: longer than 20 characters or not, carrying an
\* inline [label](url) link or not, matching a factual pattern or not
SentencesDrawn ==
    {[long |-> TRUE, cited |-> TRUE, factual |-> TRUE],
     [long |-> TRUE, cited |-> FALSE, factual |-> TRUE],
     [long |-> TRUE, cited |-> FALSE, factual |-> FALSE],
     [long |-> FALSE, cited |-> FALSE, factual |-> TRUE]}

\* dict.get(key): None when the key is missing
DictGet(m, key) == IF key \in DOMAIN m THEN m[key] ELSE NoneVal

\* truth value of a number or None with every test taken as "is not None"
IsNotNone(v) == v # NoneVal

\* Python's truth value of a number or None: None and 0 are false
Truthy(v) == v # NoneVal /\ v.val # 0

\* the tolerance test with 5% itself accepted
WithinToleranceInclusive(calculated_cap, market_cap) ==
    LET diff == IF calculated_cap >= market_cap THEN calculated_cap - market_cap
                ELSE market_cap - calculated_cap
    IN diff <= market_cap \div 20

\* lines 83-84: abs(calculated_cap - market_cap) / market_cap * 100 < 5.0, for
\* a positive market_cap; diff * 100 < 5 * market_cap, written without the
\* products
WithinTolerance(calculated_cap, market_cap) ==
    LET diff == IF calculated_cap >= market_cap THEN calculated_cap - market_cap
                ELSE market_cap - calculated_cap
    IN diff <= (market_cap - 1) \div 20

\* line 80: price * shares if price and shares else None
CalculatedCap(market_data) ==
    LET price == DictGet(market_data, "current_price")
        shares == DictGet(market_data, "shares_outstanding")
    IN IF Truthy(price) /\ Truthy(shares) THEN IntVal(price.val * shares.val)
       ELSE NoneVal

\* line 83 divides by zero
VerifyNumbersRaises(market_data) ==
    LET market_cap == DictGet(market_data, "market_cap")
    IN /\ Truthy(CalculatedCap(market_data))
       /\ Truthy(market_cap)
       /\ market_cap.val = 0

\* lines 73-96
VerifyNumbers(market_data) ==
    LET market_cap == DictGet(market_data, "market_cap")
        calculated_cap == CalculatedCap(market_data)
        compared == Truthy(calculated_cap) /\ Truthy(market_cap)
    IN [calculations_valid |->
            compared /\ WithinTolerance(calculated_cap.val, market_cap.val),
        market_cap_error_pct |->
            IF compared
            THEN [percent_of |-> market_cap.val,
                  diff |-> IF calculated_cap.val >= market_cap.val
                           THEN calculated_cap.val - market_cap.val
                           ELSE market_cap.val - calculated_cap.val]
            ELSE NoneVal,
        details |-> [calculated |-> calculated_cap, reported |-> market_cap]]

\* lines 49-71
VerifyCitations(report) ==
    LET uncited == {i \in 1..Len(report) :
                       report[i].long /\ ~report[i].cited /\ report[i].factual}
    IN [total_citations |-> Cardinality({i \in 1..Len(report) : report[i].cited}),
        uncited_claims |-> uncited,
        all_valid |-> uncited = {}]

\* a claim check that flags a claim
VerifyClaimsFlagging(report) == [unsupported_claims |-> <<"claim">>]

\* lines 22-26
VerifyClaims(report) == [unsupported_claims |-> << >>]

\* lines 28-47; overall_confidence is checks_passed / 3.0
AuditorVerify(report, market_data) ==
    LET citation_check == VerifyCitations(report)
        numeric_check == VerifyNumbers(market_data)
        claim_check == VerifyClaims(report)
        checks_passed == (IF citation_check.all_valid THEN 1 ELSE 0)
                         + (IF numeric_check.calculations_valid THEN 1 ELSE 0)
                         + (IF Len(claim_check.unsupported_claims) = 0 THEN 1 ELSE 0)
    IN [citation_check |-> citation_check,
        numeric_check |-> numeric_check,
        claim_check |-> claim_check,
        overall_confidence |-> Frac(checks_passed, 3)]

AuditInit ==
    /\ analyst_report \in SeqsUpTo(SentencesDrawn, MaxSentences)
    /\ audit_market_data \in MarketDataDrawn
    /\ verification_results = << >>
    /\ pc = "verify"
    /\ IdleExec
    /\ IdlePlan
    /\ IdleMem
    /\ IdleRag
    /\ IdleFusion
    /\ IdleLazy
    /\ IdleCite

\* lines 28-47
AuditVerify ==
    /\ pc = "verify"
    /\ IF VerifyNumbersRaises(audit_market_data)
       THEN /\ pc' = "raised"
            /\ UNCHANGED verification_results
       ELSE /\ verification_results' = AuditorVerify(analyst_report, audit_market_data)
            /\ pc' = "verified"
    /\ UNCHANGED <<analyst_report, audit_market_data>>
    /\ UNCHANGED <<execVars, planVars, memVars, ragVars, fusionVars, lazyVars, citeVars>>

AuditNext == AuditVerify

SpecAudit == AuditInit /\ [][AuditNext]_vars

-----------------------------------------------------------------------------
(* Claims about the auditor *)

\* the field is there and is a number
Present(key) ==
    key \in DOMAIN audit_market_data /\ audit_market_data[key] # NoneVal

\* C19: the numeric check reports calculations_valid = true if and only if
\* current_price, shares_outstanding and the reported market_cap are all
\* present and |price * shares_outstanding - market_cap| / market_cap is
\* strictly below 5%, for all (bounded, non-negative integer) values of the
\* three fields; e.g. price=100, shares=1,000,000 gives true for
\* market_cap=100,000,000 and false for market_cap=200,000,000.
C19_ValidIffWithinFivePercent ==
    pc = "verified" =>
        LET price == audit_market_data["current_price"].val
            shares == audit_market_data["shares_outstanding"].val
            market_cap == audit_market_data["market_cap"].val
            diff == IF price * shares >= market_cap THEN price * shares - market_cap
                    ELSE market_cap - price * shares
        IN verification_results.numeric_check.calculations_valid
             <=> /\ Present("current_price")
                 /\ Present("shares_outstanding")
                 /\ Present("market_cap")
                 /\ market_cap > 0
                 /\ diff <= market_cap \div 20
                 /\ diff * 100 < 5 * market_cap

\* C19 witness: price=100 and shares=1,000,000 checked against the reported
\* market_cap=100,000,000, and found valid
C19_Witness ==
    /\ pc = "verified"
    /\ Present("current_price") /\ audit_market_data["current_price"].val = 100
    /\ Present("shares_outstanding")
    /\ audit_market_data["shares_outstanding"].val = 1000000
    /\ Present("market_cap") /\ audit_market_data["market_cap"].val = 100000000
    /\ verification_results.numeric_check.calculations_valid

\* a market-data mapping whose numeric check passes
PassingData ==
    [current_price |-> IntVal(100), shares_outstanding |-> IntVal(1000000),
     market_cap |-> IntVal(100000000)]

\* C20: numeric verification is advisory: for every market-data mapping,
\* including ones where any of current_price, shares_outstanding or market_cap
\* is absent or zero, verify returns a complete VerificationResult without
\* raising; a failed numeric check only sets calculations_valid to false and
\* makes overall_confidence one third lower than for the same report with a
\* passing numeric check.
C20_NumericCheckAdvisory ==
    /\ pc # "raised"
    /\ pc = "verified" =>
          LET passing == AuditorVerify(analyst_report, PassingData)
          IN /\ DOMAIN verification_results =
                    {"citation_check", "numeric_check", "claim_check",
                     "overall_confidence"}
             /\ verification_results.numeric_check.calculations_valid \in BOOLEAN
             /\ verification_results.overall_confidence.den = 3
             /\ verification_results.overall_confidence.num \in 0..3
             /\ passing.numeric_check.calculations_valid
             /\ ~verification_results.numeric_check.calculations_valid =>
                   /\ verification_results.citation_check = passing.citation_check
                   /\ verification_results.claim_check = passing.claim_check
                   /\ verification_results.overall_confidence.num
                          = passing.overall_confidence.num - 1

\* C20 witness: a fully cited report verified against a mapping with a price,
\* a share count and a market_cap of zero: the numeric check failed and the
\* confidence is 2/3
C20_Witness ==
    /\ pc = "verified"
    /\ Len(analyst_report) = 2
    /\ \A i \in 1..2 : analyst_report[i].cited
    /\ Present("current_price") /\ audit_market_data["current_price"].val = 100
    /\ Present("shares_outstanding") /\ audit_market_data["shares_outstanding"].val = 5
    /\ Present("market_cap") /\ audit_market_data["market_cap"].val = 0
    /\ ~verification_results.numeric_check.calculations_valid
    /\ verification_results.overall_confidence = Frac(2, 3)

-----------------------------------------------------------------------------
(* core/memory.py: SessionMemory *)

\* most turns added to one session
MaxTurns == 10

\* largest n_turns asked for
MaxWindow == 5

\* list[start:] as Python slices: a negative start counts from the end, and
\* the start is clamped to the list
SliceFrom(list, start) ==
    LET from == IF start < 0
                THEN (IF Len(list) + start < 0 THEN 0 ELSE Len(list) + start)
                ELSE (IF start > Len(list) THEN Len(list) ELSE start)
    IN SubSeq(list, from + 1, Len(list))

\* line 113: self.conversation_history[-n_turns:]
GetContextWindow(history, n) == SliceFrom(history, 0 - n)

MemInit ==
    /\ conversation_history = << >>
    /\ n_turns = 0
    /\ context_window = << >>
    /\ pc = "session"
    /\ IdleExec
    /\ IdlePlan
    /\ IdleRag
    /\ IdleFusion
    /\ IdleLazy
    /\ IdleCite
    /\ IdleAudit

\* lines 94-101
AddTurn ==
    /\ pc = "session"
    /\ Len(conversation_history) < MaxTurns
    /\ \E role \in {"user", "assistant"} :
          conversation_history' =
              Append(conversation_history,
                     [role |-> role, message |-> Len(conversation_history),
                      metadata |-> "{}", timestamp |-> Len(conversation_history) + 1])
    /\ UNCHANGED <<n_turns, context_window, pc>>
    /\ UNCHANGED <<execVars, planVars, ragVars, fusionVars, lazyVars, citeVars, auditVars>>

\* lines 111-113
ContextWindowCall ==
    /\ pc = "session"
    /\ \E n \in 0..MaxWindow :
          /\ n_turns' = n
          /\ context_window' = GetContextWindow(conversation_history, n)
    /\ pc' = "window"
    /\ UNCHANGED conversation_history
    /\ UNCHANGED <<execVars, planVars, ragVars, fusionVars, lazyVars, citeVars, auditVars>>

MemNext ==
    \/ AddTurn
    \/ ContextWindowCall

SpecMemory == MemInit /\ [][MemNext]_vars

\* C21: after any sequence of add_turn calls on a SessionMemory,
\* get_context_window(n) for every n >= 0 returns the last min(n, number of
\* turns) conversation turns in the order they were added, so the returned
\* list never has more than n entries (10 turns and n=5 give 5 entries).
C21_LastMinNTurns ==
    pc = "window" =>
        LET turns == Len(conversation_history)
            m == IF n_turns < turns THEN n_turns ELSE turns
        IN /\ Len(context_window) = m
           /\ Len(context_window) <= n_turns
           /\ \A i \in 1..m : context_window[i] = conversation_history[turns - m + i]
           /\ (turns = 10 /\ n_turns = 5) => Len(context_window) = 5

\* C25: for every report, citation list and market-data mapping, verify's
\* overall_confidence is one of 1/3, 2/3 or 1 and never 0, because the claim
\* check always reports zero unsupported claims and therefore always counts as
\* one passed check out of three.
C25_ConfidenceAtLeastOneThird ==
    pc = "verified" =>
        /\ verification_results.claim_check.unsupported_claims = << >>
        /\ verification_results.overall_confidence \in {Frac(1, 3), Frac(2, 3), Frac(3, 3)}
        /\ verification_results.overall_confidence.num =
               1 + (IF verification_results.citation_check.all_valid THEN 1 ELSE 0)
                 + (IF verification_results.numeric_check.calculations_valid THEN 1 ELSE 0)

\* C25 witness: a report with an uncited factual sentence, verified against a
\* mapping with no price: both other checks failed and the confidence is 1/3
C25_Witness ==
    /\ pc = "verified"
    /\ \E i \in 1..Len(analyst_report) :
          analyst_report[i].long /\ analyst_report[i].factual /\ ~analyst_report[i].cited
    /\ "current_price" \notin DOMAIN audit_market_data
    /\ ~verification_results.citation_check.all_valid
    /\ ~verification_results.numeric_check.calculations_valid
    /\ verification_results.overall_confidence = Frac(1, 3)

====
